---- MODULE Spec2Model ----
(***************************************************************************)
(* State-machine model of the alert subsystem of cryptolertbot             *)
(* (src/main.py): the Postgres-backed alert store, the /alert, /myalerts   *)
(* and /delalert command handlers and the repeating job alert_check_job.   *)
(*                                                                         *)
(* Scheduling.  Everything runs on one asyncio event loop.  The store and  *)
(* the quote provider are called synchronously (psycopg2, requests), so a  *)
(* coroutine can only be interleaved with another one at an `await`.  The  *)
(* command handlers touch the store before their first await, hence each   *)
(* handler is one atomic action.  alert_check_job awaits only              *)
(* context.bot.send_message, so the job is atomic from its start up to the *)
(* first send_message call, and from the return of one send_message up to  *)
(* the next call (or the end of the cycle).  The model takes the job       *)
(* through the positions "evaluate" (snapshot and prices fetched, loop     *)
(* running), "sending" (suspended in the await) and "return"; command      *)
(* handlers run only while the job is idle or suspended in "sending".      *)
(***************************************************************************)
EXTENDS Integers, Sequences, FiniteSets, TLC

\* ------------------------------------------------------------------ bounds
MaxAlerts == 2      \* number of rows ever inserted (values of the SERIAL id)

\* ------------------------------------------------------- program constants
ListLimit == 50     \* LIMIT 50 of db_list_alerts

\* ------------------------------------------------------------ input domains
Users      == {1, 2}
Symbols    == {"BTC", "ETH"}
RawSymbols == {"btc", "eth"}
Prices     == {1, 2, 3}
PriceTokens == {"2", "x"}
IdTokens    == {"1", "2", "x"}

None    == [some |-> FALSE, val |-> 0]
Some(v) == [some |-> TRUE, val |-> v]

\* str.upper() on the symbols of the model
Upper(s) ==
  CASE s = "btc" -> "BTC"
    [] s = "BTC" -> "BTC"
    [] s = "eth" -> "ETH"
    [] s = "ETH" -> "ETH"

\* float(tok) / int(tok): Some(n), or None when the conversion raises
ParseNum(tok) ==
  CASE tok = "1" -> Some(1)
    [] tok = "2" -> Some(2)
    [] tok = "3" -> Some(3)
    [] OTHER     -> None

\* what the HTTP request of lcw_single can come back with
Responses ==
  {[kind |-> "exception", rate |-> None],
   [kind |-> "http500",   rate |-> None],
   [kind |-> "http200",   rate |-> None]}
  \cup {[kind |-> "http200", rate |-> Some(p)] : p \in Prices}

\* how a store call can go: db_connect only acts while conn is None
DbOutcomes(c) ==
  IF c = "None" THEN {"ok", "connect_raises", "create_raises", "stmt_raises"}
  ELSE {"ok", "stmt_raises"}

VARIABLES
  USE_DB,       \* bool(DATABASE_URL)
  started,      \* main() has run up to app.run_polling()
  conn,         \* the global connection handle: "None" or "open"
  schema,       \* the CREATE TABLE of db_connect has been committed
  alerts,       \* rows of table alerts
  nextId,       \* next value of the SERIAL column id
  handles,      \* history: psycopg2.connect calls that returned a handle
  creates,      \* history: executions of the CREATE TABLE statement
  pc,           \* alert_check_job: "idle", "evaluate", "sending", "return"
  rows,         \* alert_check_job: rows
  prices,       \* alert_check_job: prices.get(sym) for every symbol
  idx,          \* alert_check_job: position of the evaluation loop in rows
  lcwCalls,     \* lcw_single calls of the last started cycle, per symbol
  sent,         \* ids for which the running cycle called send_message
  sendRaised,   \* ... and send_message raised
  delCalled,    \* ids for which the running cycle called db_delete_by_id
  delRaised,    \* ... and db_delete_by_id raised
  shown,        \* price_now of the send_message calls of the running cycle
  notified,     \* history: ids for which send_message has been called
  deleted,      \* history: ids removed from the table
  regPrice,     \* history: the rate the provider answered when the row was stored
  lastOp        \* the operation of the last step and what it answered

storeVars == <<conn, schema, alerts, nextId, handles, creates>>
jobVars   == <<pc, rows, prices, idx, lcwCalls, sent, sendRaised, delCalled,
               delRaised, shown>>
histVars  == <<notified, deleted, regPrice>>
vars      == <<USE_DB, started, storeVars, jobVars, histVars, lastOp>>

Ids == 1..MaxAlerts

Op(name, user, aid, res) == [op |-> name, user |-> user, aid |-> aid, res |-> res]

\* ---------------------------------------------------------------- the store

\* variant of db_connect: `if conn is not None: return` is missing
db_connect_again(useDb, c, s, out) ==
  IF ~useDb THEN [conn |-> c, schema |-> s, raised |-> FALSE, opened |-> 0, created |-> 0]
  ELSE IF out = "connect_raises"
       THEN [conn |-> c, schema |-> s, raised |-> TRUE, opened |-> 0, created |-> 0]
  ELSE IF out = "create_raises"
       THEN [conn |-> "open", schema |-> s, raised |-> TRUE, opened |-> 1, created |-> 1]
  ELSE [conn |-> "open", schema |-> TRUE, raised |-> FALSE, opened |-> 1, created |-> 1]

\* db_connect: the new state of the handle, whether the call raised, whether
\* psycopg2.connect returned a handle (opened) and whether the CREATE TABLE
\* statement was executed (created)
db_connect(useDb, c, s, out) ==
  IF ~useDb THEN [conn |-> c, schema |-> s, raised |-> FALSE, opened |-> 0, created |-> 0]
  ELSE IF c # "None"
       THEN [conn |-> c, schema |-> s, raised |-> FALSE, opened |-> 0, created |-> 0]
  ELSE IF out = "connect_raises"
       THEN [conn |-> "None", schema |-> s, raised |-> TRUE, opened |-> 0, created |-> 0]
  ELSE IF out = "create_raises"
       THEN [conn |-> "open", schema |-> FALSE, raised |-> TRUE, opened |-> 1, created |-> 1]
  ELSE [conn |-> "open", schema |-> TRUE, raised |-> FALSE, opened |-> 1, created |-> 1]

\* the globals after a db_connect call that came back as c
Connected(c) ==
  /\ conn' = c.conn
  /\ schema' = c.schema
  /\ handles' = handles + c.opened
  /\ creates' = creates + c.created

\* a statement on the handle raises when the table is missing or the
\* server or the network fails (out = "stmt_raises")
StmtRaises(c, out) == c.raised \/ ~c.schema \/ out = "stmt_raises"

\* variant of db_add_alert: the id of a removed row is handed out again
db_add_alert_reuse(tbl, seq, user_id, chat_id, symbol, target, direction) ==
  LET free == CHOOSE i \in 1..(Cardinality(tbl) + 1) : i \notin {a.id : a \in tbl}
  IN  [table |-> tbl \cup {[id |-> free, user_id |-> user_id, chat_id |-> chat_id,
                            symbol |-> Upper(symbol), target |-> target,
                            direction |-> direction]},
       seq   |-> seq + 1]

\* INSERT INTO alerts (user_id, chat_id, symbol, target, direction) ... :
\* the id comes from the sequence of the SERIAL column
db_add_alert(tbl, seq, user_id, chat_id, symbol, target, direction) ==
  [table |-> tbl \cup {[id |-> seq, user_id |-> user_id, chat_id |-> chat_id,
                        symbol |-> Upper(symbol), target |-> target,
                        direction |-> direction]},
   seq   |-> seq + 1]

IdsOf(tbl) == {a.id : a \in tbl}

\* variant of db_delete_alert: the WHERE clause leaves out the owner
db_delete_alert_anyowner(tbl, alert_id, user_id) ==
  LET hit == {a \in tbl : a.id = alert_id}
  IN  [table |-> tbl \ hit, deleted |-> hit # {}]

\* DELETE FROM alerts WHERE id = %s AND user_id = %s ; rowcount > 0
db_delete_alert(tbl, alert_id, user_id) ==
  LET hit == {a \in tbl : a.id = alert_id /\ a.user_id = user_id}
  IN  [table |-> tbl \ hit, deleted |-> hit # {}]

\* variant of db_delete_by_id: the WHERE clause is missing
db_delete_by_id_all(tbl, alert_id) == {}

\* DELETE FROM alerts WHERE id = %s
db_delete_by_id(tbl, alert_id) == {a \in tbl : a.id # alert_id}

\* variant of db_fetch_all_alerts: the statement ends in
\* ORDER BY id DESC LIMIT 1
db_fetch_all_alerts_newest(tbl) ==
  IF tbl = {} THEN <<>>
  ELSE <<CHOOSE a \in tbl : \A b \in tbl : b.id <= a.id>>

\* SELECT ... FROM alerts (no ORDER BY): the rows, taken in the order of
\* insertion
db_fetch_all_alerts(tbl) ==
  CHOOSE r \in [1..Cardinality(tbl) -> tbl] :
     \A i, j \in 1..Cardinality(tbl) : i < j => r[i].id < r[j].id

RECURSIVE NewestFirst(_)
NewestFirst(S) ==
  IF S = {} THEN <<>>
  ELSE LET m == CHOOSE a \in S : \A b \in S : b.id <= a.id
       IN  <<[id |-> m.id, symbol |-> m.symbol, target |-> m.target,
              direction |-> m.direction]>> \o NewestFirst(S \ {m})

\* SELECT id, symbol, target, direction ... WHERE user_id = %s
\* ORDER BY created_at DESC LIMIT 50
db_list_alerts(tbl, user_id) ==
  LET all == NewestFirst({a \in tbl : a.user_id = user_id})
  IN  IF Len(all) <= ListLimit THEN all ELSE SubSeq(all, 1, ListLimit)

\* ------------------------------------------------------- the quote provider

\* lcw_single: the JSON payload, or None
lcw_single(resp) ==
  IF resp.kind = "http200" THEN [data |-> TRUE, rate |-> resp.rate]
  ELSE [data |-> FALSE, rate |-> None]

\* variant of RateOf: a missing rate becomes the price 0
RateOf_default(data) == IF data.data /\ data.rate.some THEN data.rate ELSE Some(0)

\* float(data["rate"]) if data and data.get("rate") is not None else None
RateOf(data) == IF data.data /\ data.rate.some THEN data.rate ELSE None

\* ---------------------------------------------------------------- Init

Init ==
  /\ USE_DB \in BOOLEAN
  /\ started = FALSE
  /\ conn = "None"
  /\ schema = FALSE
  /\ alerts = {}
  /\ nextId = 1
  /\ handles = 0
  /\ creates = 0
  /\ pc = "idle"
  /\ rows = <<>>
  /\ prices = [s \in Symbols |-> None]   \* no key set
  /\ idx = 1
  /\ lcwCalls = [s \in Symbols |-> 0]
  /\ sent = {}
  /\ sendRaised = {}
  /\ delCalled = {}
  /\ delRaised = {}
  /\ shown = [i \in Ids |-> None]
  /\ notified = {}
  /\ deleted = {}
  /\ regPrice = [i \in Ids |-> None]
  /\ lastOp = Op("init", 0, 0, "")

\* main(): db_connect() under try/except, then the handlers and the job run
Main(out) ==
  /\ ~started
  /\ started' = TRUE
  /\ LET c == db_connect(USE_DB, conn, schema, out)
     IN  /\ Connected(c)
         /\ lastOp' = Op("main", 0, 0, IF c.raised THEN "failed" ELSE "ok")
  /\ UNCHANGED <<USE_DB, alerts, nextId, jobVars, histVars>>

\* ------------------------------------------------------- command handlers

Chats(u) == {u}         \* effective_chat.id: the user's private chat

AlertArgs == {<<>>} \cup {<<s>> : s \in RawSymbols}
             \cup {<<s, t>> : s \in RawSymbols, t \in PriceTokens}
DelArgs   == {<<>>} \cup {<<t>> : t \in IdTokens}

\* variant of Direction: target > price_now
Direction_strict(target, price_now) == IF target > price_now THEN "above" ELSE "below"

\* direction = "above" if target >= price_now else "below"
Direction(target, price_now) == IF target >= price_now THEN "above" ELSE "below"

\* /alert <symbol> <price>
alert_cmd(user, chat, args) ==
  /\ started /\ pc \in {"idle", "sending"}
  /\ UNCHANGED <<USE_DB, started, jobVars>>
  /\ IF ~USE_DB THEN
       /\ lastOp' = Op("alert", 0, 0, "Alerts are disabled")
       /\ UNCHANGED <<storeVars, histVars>>
     ELSE IF Len(args) < 2 THEN
       /\ lastOp' = Op("alert", 0, 0, "Usage")
       /\ UNCHANGED <<storeVars, histVars>>
     ELSE IF ~ParseNum(args[2]).some THEN
       /\ lastOp' = Op("alert", 0, 0, "Price must be a number.")
       /\ UNCHANGED <<storeVars, histVars>>
     ELSE \E resp \in Responses :
       IF ~RateOf(lcw_single(resp)).some THEN
         /\ lastOp' = Op("alert", 0, 0, "Unknown coin symbol.")
         /\ UNCHANGED <<storeVars, histVars>>
       ELSE \E out \in DbOutcomes(conn) :
         LET sym       == Upper(args[1])
             target    == ParseNum(args[2]).val
             price_now == RateOf(lcw_single(resp)).val
             direction == Direction(target, price_now)
             c         == db_connect(USE_DB, conn, schema, out)
         IN  /\ Connected(c)
             /\ IF StmtRaises(c, out) THEN
                  /\ lastOp' = Op("alert", 0, 0, "Failed to save alert.")
                  /\ UNCHANGED <<alerts, nextId, histVars>>
                ELSE
                  LET ins == db_add_alert(alerts, nextId, user, chat, sym,
                                          target, direction)
                  IN  /\ nextId <= MaxAlerts
                      /\ alerts' = ins.table
                      /\ nextId' = ins.seq
                      /\ regPrice' = [regPrice EXCEPT ![nextId] = resp.rate]
                      \* the confirmation is sent inside the try: if it
                      \* raises, the except branch answers instead
                      /\ \E replyOk \in BOOLEAN :
                           lastOp' = Op("alert", 0, nextId,
                             IF replyOk THEN "Alert set" ELSE "Failed to save alert.")
                      /\ UNCHANGED <<notified, deleted>>

\* /myalerts
myalerts(user, out) ==
  /\ started /\ pc \in {"idle", "sending"}
  /\ IF ~USE_DB THEN
       /\ lastOp' = Op("myalerts", 0, 0, "Alerts are disabled")
       /\ UNCHANGED <<conn, schema, handles, creates>>
     ELSE
       LET c == db_connect(USE_DB, conn, schema, out)
       IN  /\ Connected(c)
           /\ IF StmtRaises(c, out) THEN
                lastOp' = Op("myalerts", 0, 0, "raised")
              ELSE
                LET rws == db_list_alerts(alerts, user)
                IN  lastOp' = Op("myalerts", 0, 0,
                       IF rws = <<>> THEN "You have no alerts." ELSE "Your Alerts")
  /\ UNCHANGED <<USE_DB, started, alerts, nextId, jobVars, histVars>>

\* /delalert <id>
delalert(user, args, out) ==
  /\ started /\ pc \in {"idle", "sending"}
  /\ IF ~USE_DB THEN
       /\ lastOp' = Op("delalert", 0, 0, "Alerts are disabled")
       /\ UNCHANGED <<storeVars, deleted, regPrice>>
     ELSE IF Len(args) = 0 THEN
       /\ lastOp' = Op("delalert", 0, 0, "Usage")
       /\ UNCHANGED <<storeVars, deleted, regPrice>>
     ELSE IF ~ParseNum(args[1]).some THEN
       /\ lastOp' = Op("delalert", 0, 0, "Alert id must be a number.")
       /\ UNCHANGED <<storeVars, deleted, regPrice>>
     ELSE
       LET aid == ParseNum(args[1]).val
           c   == db_connect(USE_DB, conn, schema, out)
       IN  /\ Connected(c)
           /\ UNCHANGED nextId
           /\ IF StmtRaises(c, out) THEN
                /\ lastOp' = Op("delalert", 0, 0, "raised")
                /\ UNCHANGED <<alerts, deleted, regPrice>>
              ELSE
                LET d == db_delete_alert(alerts, aid, user)
                IN  /\ alerts' = d.table
                    /\ deleted' = IF d.deleted THEN deleted \cup {aid} ELSE deleted
                    /\ regPrice' = [i \in Ids |->
                          IF i \in IdsOf(alerts) \ IdsOf(alerts') THEN None
                          ELSE regPrice[i]]
                    /\ lastOp' = Op("delalert", user, aid,
                          IF d.deleted THEN "Deleted." ELSE "Alert not found.")
  /\ UNCHANGED <<USE_DB, started, jobVars, notified>>

\* ------------------------------------------------------- alert_check_job

\* variant of Hit: strict comparisons
Hit_strict(direction, price_now, target) ==
  \/ direction = "above" /\ price_now > target
  \/ direction = "below" /\ price_now < target

\* hit = (direction == "above" and price_now >= float(target))
\*    or (direction == "below" and price_now <= float(target))
Hit(direction, price_now, target) ==
  \/ direction = "above" /\ price_now >= target
  \/ direction = "below" /\ price_now <= target

\* for sym in symbols: data = lcw_single(sym); prices[sym] = ...
\* quote[sym] is what the provider answers to the request for sym
RECURSIVE FetchPrices(_, _)
FetchPrices(symbols, quote) ==
  IF symbols = {} THEN [prices |-> [s \in Symbols |-> None],
                        calls  |-> [s \in Symbols |-> 0]]
  ELSE LET sym  == CHOOSE s \in symbols : TRUE
           rest == FetchPrices(symbols \ {sym}, quote)
       IN  [prices |-> [rest.prices EXCEPT ![sym] = RateOf(lcw_single(quote[sym]))],
            calls  |-> [rest.calls EXCEPT ![sym] = @ + 1]]

\* symbols = set(r[3].upper() for r in rows)
SymbolsOf(rs) == {Upper(rs[i].symbol) : i \in DOMAIN rs}

\* variant of FetchAll: one lcw_single call per row instead of per symbol
RECURSIVE FetchPerRow(_, _, _)
FetchPerRow(rs, quote, i) ==
  IF i > Len(rs) THEN [prices |-> [s \in Symbols |-> None],
                       calls  |-> [s \in Symbols |-> 0]]
  ELSE LET sym  == Upper(rs[i].symbol)
           rest == FetchPerRow(rs, quote, i + 1)
       IN  [prices |-> [rest.prices EXCEPT ![sym] = RateOf(lcw_single(quote[sym]))],
            calls  |-> [rest.calls EXCEPT ![sym] = @ + 1]]

FetchAll_perRow(rs, quote) == FetchPerRow(rs, quote, 1)

\* the symbols, then the fetch loop over them
FetchAll(rs, quote) == FetchPrices(SymbolsOf(rs), quote)

\* variant of PriceNow: `sym` is not taken from the row, the loop variable
\* of the fetch loop is still in it
PriceNow_stale(pr, r) == pr[CHOOSE sym \in Symbols : TRUE]

\* sym = sym.upper(); price_now = prices.get(sym)
PriceNow(pr, r) == pr[Upper(r.symbol)]

\* variant of NextHit: the `if price_now is None: continue` is missing and a
\* missing price compares as 0
RECURSIVE NextHit_noskip(_, _, _)
NextHit_noskip(rs, pr, i) ==
  IF i > Len(rs) THEN i
  ELSE IF Hit(rs[i].direction, PriceNow(pr, rs[i]).val, rs[i].target)
       THEN i
       ELSE NextHit_noskip(rs, pr, i + 1)

\* variant of NextHit: a missing price ends the loop (`break` for `continue`)
RECURSIVE NextHit_break(_, _, _)
NextHit_break(rs, pr, i) ==
  IF i > Len(rs) THEN i
  ELSE LET price_now == PriceNow(pr, rs[i])
       IN  IF ~price_now.some THEN Len(rs) + 1
           ELSE IF Hit(rs[i].direction, price_now.val, rs[i].target)
           THEN i
           ELSE NextHit_break(rs, pr, i + 1)

\* the evaluation loop from position i: the first row that is a hit,
\* Len(rs) + 1 when the loop runs to its end
RECURSIVE NextHit(_, _, _)
NextHit(rs, pr, i) ==
  IF i > Len(rs) THEN i
  ELSE LET price_now == PriceNow(pr, rs[i])
       IN  IF price_now.some /\ Hit(rs[i].direction, price_now.val, rs[i].target)
           THEN i
           ELSE NextHit(rs, pr, i + 1)

NoPrices == [s \in Symbols |-> None]
NoCalls  == [s \in Symbols |-> 0]

NoShown  == [i \in Ids |-> None]

\* variant of Return: the run is never reported as finished
Return_busy ==
  /\ pc' = "return" /\ rows' = <<>> /\ prices' = NoPrices /\ idx' = 1
  /\ sent' = {} /\ sendRaised' = {} /\ delCalled' = {} /\ delRaised' = {}
  /\ shown' = NoShown

\* the locals of alert_check_job are gone when it returns, and the job queue
\* can start the next run
Return ==
  /\ pc' = "idle" /\ rows' = <<>> /\ prices' = NoPrices /\ idx' = 1
  /\ sent' = {} /\ sendRaised' = {} /\ delCalled' = {} /\ delRaised' = {}
  /\ shown' = NoShown

\* variant of MayStart: the job queue starts a run whenever one comes due
MayStart_overlap(p) == TRUE

\* app.job_queue.run_repeating(alert_check_job, interval=120, first=15) is
\* called without job_kwargs, so the job runs under the scheduler's default
\* of one running instance: a run that comes due while the previous one has
\* not returned is not started
MayStart(p) == p = "idle"

\* alert_check_job from its start to the evaluation loop: the snapshot, the
\* symbols and the price fetches
alert_check_job ==
  /\ started /\ MayStart(pc)
  /\ UNCHANGED <<USE_DB, started, alerts, nextId, histVars>>
  /\ IF ~USE_DB THEN
       /\ lastOp' = Op("job", 0, 0, "disabled")
       /\ Return
       /\ UNCHANGED <<conn, schema, handles, creates, lcwCalls>>
     ELSE \E out \in DbOutcomes(conn) :
       LET c == db_connect(USE_DB, conn, schema, out)
       IN  /\ Connected(c)
           /\ IF StmtRaises(c, out) THEN
                /\ lastOp' = Op("job", 0, 0, "alert_check_job error")
                /\ lcwCalls' = NoCalls
                /\ Return
              ELSE IF db_fetch_all_alerts(alerts) = <<>> THEN
                /\ lastOp' = Op("job", 0, 0, "no rows")
                /\ lcwCalls' = NoCalls
                /\ Return
              ELSE
                \E quote \in [SymbolsOf(db_fetch_all_alerts(alerts)) -> Responses] :
                  LET f == FetchAll(db_fetch_all_alerts(alerts), quote)
                  IN  /\ rows' = db_fetch_all_alerts(alerts)
                      /\ prices' = f.prices
                      /\ lcwCalls' = f.calls
                      /\ idx' = 1
                      /\ pc' = "evaluate"
                      /\ lastOp' = Op("job", 0, 0, "fetched")
                      /\ UNCHANGED <<sent, sendRaised, delCalled, delRaised,
                                     shown>>

\* the evaluation loop from position idx: up to the next hit, for which
\* send_message is called (the job is then suspended in the await), or to
\* the end of rows
alert_check_job_evaluate ==
  /\ pc = "evaluate"
  /\ LET j == NextHit(rows, prices, idx)
     IN  /\ idx' = j
         /\ IF j <= Len(rows)
            THEN /\ pc' = "sending"
                 /\ sent' = sent \cup {rows[j].id}
                 /\ notified' = notified \cup {rows[j].id}
                 /\ shown' = [shown EXCEPT ![rows[j].id] = PriceNow(prices, rows[j])]
                 /\ lastOp' = Op("job_send", 0, rows[j].id, "send_message")
            ELSE /\ pc' = "return"
                 /\ lastOp' = Op("job", 0, 0, "evaluated")
                 /\ UNCHANGED <<sent, notified, shown>>
  /\ UNCHANGED <<USE_DB, started, storeVars, rows, prices, lcwCalls, sendRaised,
                 delCalled, delRaised, deleted, regPrice>>

\* a run of alert_check_job comes due while the previous run is suspended in
\* send_message: the job queue does not start it
alert_check_job_skipped ==
  /\ started /\ pc = "sending" /\ ~MayStart(pc)
  /\ lastOp' = Op("job", 0, 0, "skipped")
  /\ UNCHANGED <<USE_DB, started, storeVars, jobVars, histVars>>

\* variant of NextIdx: a failed send or a failed deletion ends the loop
NextIdx_break(rs, i, sendOk, raised) ==
  IF sendOk /\ ~raised THEN i + 1 ELSE Len(rs) + 1

\* both try/except blocks of the loop body swallow their exception: the loop
\* goes on with the next row
NextIdx(rs, i, sendOk, raised) == i + 1

\* variant of delete_after_send: the deletion is skipped when the send failed
delete_after_send_gated(tbl, aid, sendOk, raises) ==
  IF raises THEN [table |-> tbl, raised |-> TRUE]
  ELSE IF ~sendOk THEN [table |-> tbl, raised |-> FALSE]
  ELSE [table |-> {a \in tbl : a.id # aid}, raised |-> FALSE]

\* what follows the await: `except` swallows a failed send, then
\* `try: db_delete_by_id(aid)`, whose exception is logged (raises)
delete_after_send(tbl, aid, sendOk, raises) ==
  IF raises THEN [table |-> tbl, raised |-> TRUE]
  ELSE [table |-> db_delete_by_id(tbl, aid), raised |-> FALSE]

\* alert_check_job resumes from `await context.bot.send_message(...)`:
\* the send returned (sendOk) or raised, then db_delete_by_id(aid)
alert_check_job_resume(sendOk, out) ==
  /\ pc = "sending"
  /\ LET aid == rows[idx].id
         c   == db_connect(USE_DB, conn, schema, out)
         d   == delete_after_send(alerts, aid, sendOk, StmtRaises(c, out))
     IN  /\ Connected(c)
         /\ sendRaised' = IF sendOk THEN sendRaised ELSE sendRaised \cup {aid}
         /\ delCalled' = delCalled \cup {aid}
         /\ delRaised' = IF d.raised THEN delRaised \cup {aid} ELSE delRaised
         /\ alerts' = d.table
         /\ deleted' = IF alerts' # alerts THEN deleted \cup {aid} ELSE deleted
         /\ regPrice' = [i \in Ids |->
               IF i \in IdsOf(alerts) \ IdsOf(alerts') THEN None ELSE regPrice[i]]
         /\ lastOp' = Op("job_delete", 0, aid,
               IF d.raised THEN "Delete alert error" ELSE "deleted")
         /\ idx' = NextIdx(rows, idx, sendOk, d.raised)
  /\ pc' = "evaluate"
  /\ UNCHANGED <<USE_DB, started, nextId, rows, prices, lcwCalls, sent, shown,
                 notified>>

\* the loop is over: alert_check_job returns
alert_check_job_return ==
  /\ pc = "return"
  /\ Return
  /\ lastOp' = Op("job", 0, 0, "returned")
  /\ UNCHANGED <<USE_DB, started, storeVars, histVars, lcwCalls>>

\* ---------------------------------------------------------------- Next

Next ==
  \/ \E out \in DbOutcomes(conn) : Main(out)
  \/ \E user \in Users, args \in AlertArgs :
        \E chat \in Chats(user) : alert_cmd(user, chat, args)
  \/ \E user \in Users, out \in DbOutcomes(conn) : myalerts(user, out)
  \/ \E user \in Users, args \in DelArgs, out \in DbOutcomes(conn) :
        delalert(user, args, out)
  \/ alert_check_job
  \/ alert_check_job_evaluate
  \/ alert_check_job_skipped
  \/ \E sendOk \in BOOLEAN, out \in DbOutcomes(conn) :
        alert_check_job_resume(sendOk, out)
  \/ alert_check_job_return

Spec == Init /\ [][Next]_vars

\* ------------------------------------------------ the store being reachable

\* the last step did not meet a failure of the store: db_connect and the
\* statement of the db_* call went through
StoreReachable ==
  /\ lastOp.res \notin {"failed", "raised", "alert_check_job error", "Delete alert error"}
  /\ ~(lastOp.res = "Failed to save alert." /\ lastOp.aid = 0)

LiveInit == Init /\ USE_DB

LiveNext ==
  \/ (\E out \in DbOutcomes(conn) : Main(out)) /\ StoreReachable'
  \/ (\E user \in Users, args \in AlertArgs :
        \E chat \in Chats(user) : alert_cmd(user, chat, args)) /\ StoreReachable'
  \/ (\E user \in Users, out \in DbOutcomes(conn) : myalerts(user, out))
        /\ StoreReachable'
  \/ (\E user \in Users, args \in DelArgs, out \in DbOutcomes(conn) :
        delalert(user, args, out)) /\ StoreReachable'
  \/ alert_check_job /\ StoreReachable'
  \/ alert_check_job_evaluate
  \/ alert_check_job_skipped
  \/ (\E sendOk \in BOOLEAN, out \in DbOutcomes(conn) :
        alert_check_job_resume(sendOk, out)) /\ StoreReachable'
  \/ alert_check_job_return

\* the program with DATABASE_URL set and a store that answers.  Once a run
\* of alert_check_job has started it goes on without waiting except in
\* send_message, which returns or raises within the request timeout; how
\* often the job queue starts a run and what the provider quotes is left
\* open here and is stated as the hypothesis of C17.
LiveSpec ==
  /\ LiveInit
  /\ [][LiveNext]_vars
  /\ WF_vars(alert_check_job_evaluate)
  /\ WF_vars((\E sendOk \in BOOLEAN, out \in DbOutcomes(conn) :
                alert_check_job_resume(sendOk, out)) /\ StoreReachable')
  /\ WF_vars(alert_check_job_return)

\* ---------------------------------------------------------------- claims

\* the hit predicate of the specification, on a row of the snapshot and the
\* prices of the running cycle
Quoted(r)   == prices[r.symbol].some
SpecHit(r)  ==
  /\ prices[r.symbol].some
  /\ \/ r.direction = "above" /\ prices[r.symbol].val >= r.target
     \/ r.direction = "below" /\ prices[r.symbol].val <= r.target
CycleEnd    == pc = "return"

\* C1: the Notifier is called at most once for any alert id: a step in which
\* alert_check_job calls send_message never does so for an id for which
\* send_message was called before.
C1_NotifiedAtMostOnce ==
  [][(pc = "evaluate" /\ pc' = "sending") => rows[idx'].id \notin notified]_vars

\* C2 (as stated): at the end of a cycle every row of the snapshot that has a
\* quote and is a hit is gone from the store.
C2_HitRemoved ==
  CycleEnd => \A i \in DOMAIN rows :
    SpecHit(rows[i]) => rows[i].id \notin IdsOf(alerts)

\* C2 (amended): at the end of a cycle, for every row of the snapshot that has
\* a quote and is a hit, db_delete_by_id was called whether or not
\* send_message raised, and the row is gone from the store unless
\* db_delete_by_id itself raised.
C2_HitDeletedUnlessDeleteRaised ==
  CycleEnd => \A i \in DOMAIN rows :
    SpecHit(rows[i]) =>
      /\ rows[i].id \in delCalled
      /\ rows[i].id \notin delRaised => rows[i].id \notin IdsOf(alerts)

C2_Witness ==
  /\ CycleEnd
  /\ \E i \in DOMAIN rows :
       /\ SpecHit(rows[i])
       /\ rows[i].id \in sendRaised
       /\ rows[i].id \notin delRaised
       /\ rows[i].id \notin IdsOf(alerts)

\* C3: a row of the snapshot whose symbol got no price is neither notified
\* nor deleted by the cycle: no step of alert_check_job removes or changes it
\* or calls send_message for it, and at the end of the cycle it is in no
\* send or delete call of the cycle and in the store with the same fields
\* (unless a /delalert removed it while the job was suspended).
C3_UnquotedUntouched ==
  /\ [](CycleEnd => \A i \in DOMAIN rows :
          ~Quoted(rows[i]) =>
            /\ rows[i].id \notin sent
            /\ rows[i].id \notin delCalled
            /\ rows[i] \in alerts \/ rows[i].id \in deleted)
  /\ [][pc' # pc =>
          LET snap == IF pc = "idle" THEN rows' ELSE rows
              pr   == IF pc = "idle" THEN prices' ELSE prices
          IN  \A i \in DOMAIN snap :
                ~pr[snap[i].symbol].some =>
                  /\ snap[i] \in alerts => snap[i] \in alerts'
                  /\ snap[i].id \in notified' => snap[i].id \in notified
                  /\ snap[i].id \notin sent']_vars

C3_Witness ==
  /\ CycleEnd
  /\ sent # {}
  /\ \E i \in DOMAIN rows : ~Quoted(rows[i]) /\ rows[i] \in alerts

\* C4 (as stated): at the end of a cycle a row of the snapshot with a quote
\* has been notified and is gone from the store iff it is a hit.
C4_NotifiedAndDeletedIffHit ==
  CycleEnd => \A i \in DOMAIN rows :
    Quoted(rows[i]) =>
      ((rows[i].id \in sent /\ rows[i].id \notin IdsOf(alerts)) <=> SpecHit(rows[i]))

\* C4 (amended): at the end of a cycle, for a row of the snapshot with a
\* quote, send_message was called iff it is a hit, db_delete_by_id was called
\* iff it is a hit, and a hit is gone from the store unless db_delete_by_id
\* raised.
C4_ActedOnIffHit ==
  CycleEnd => \A i \in DOMAIN rows :
    Quoted(rows[i]) =>
      /\ rows[i].id \in sent <=> SpecHit(rows[i])
      /\ rows[i].id \in delCalled <=> SpecHit(rows[i])
      /\ (SpecHit(rows[i]) /\ rows[i].id \notin delRaised)
            => rows[i].id \notin IdsOf(alerts)

C4_Witness ==
  /\ CycleEnd
  /\ \E i, j \in DOMAIN rows :
       /\ rows[i].direction = "above" /\ rows[j].direction = "below"
       /\ prices[rows[i].symbol] = Some(rows[i].target)
       /\ prices[rows[j].symbol] = Some(rows[j].target)
       /\ {rows[i].id, rows[j].id} \subseteq sent
       /\ {rows[i].id, rows[j].id} \cap IdsOf(alerts) = {}

\* C5: a cycle over a non-empty snapshot calls lcw_single exactly once for
\* every symbol of the snapshot and for no other symbol; a cycle over an
\* empty snapshot calls it not at all.
C5_OneCallPerSymbol ==
  /\ pc # "idle" =>
       \A s \in Symbols :
         lcwCalls[s] = IF \E i \in DOMAIN rows : rows[i].symbol = s THEN 1 ELSE 0
  /\ lastOp = Op("job", 0, 0, "no rows") => \A s \in Symbols : lcwCalls[s] = 0

C5_Witness ==
  /\ pc # "idle"
  /\ Len(rows) = 2
  /\ rows[1].symbol = rows[2].symbol
  /\ lcwCalls[rows[1].symbol] = 1

\* C6: a /delalert whose id belongs to another user's alert answers
\* "Alert not found." and leaves the table as it was; it answers "Deleted."
\* only when a row with that id and that owner was removed.
C6_DeleteByOwner ==
  [][(lastOp'.op = "delalert" /\ lastOp'.res \in {"Deleted.", "Alert not found."}) =>
       /\ (\E a \in alerts : a.id = lastOp'.aid /\ a.user_id # lastOp'.user)
            => (lastOp'.res = "Alert not found." /\ alerts' = alerts)
       /\ lastOp'.res = "Deleted." =>
            \E a \in alerts : /\ a.id = lastOp'.aid
                              /\ a.user_id = lastOp'.user
                              /\ alerts' = alerts \ {a}]_vars

C6_Witness ==
  /\ lastOp.op = "delalert"
  /\ lastOp.res = "Alert not found."
  /\ \E a \in alerts : a.id = lastOp.aid /\ a.user_id # lastOp.user

\* C7: every alert in the store has direction above iff its threshold is >=
\* the rate the provider answered at its registration, below otherwise; and
\* no step changes a field of an alert that stays in the store.
C7_DirectionFixed ==
  /\ [](\A a \in alerts :
          /\ regPrice[a.id].some
          /\ a.direction = "above" <=> a.target >= regPrice[a.id].val
          /\ a.direction = "below" <=> a.target < regPrice[a.id].val)
  /\ [][\A a \in alerts : \A b \in alerts' : b.id = a.id => b = a]_vars

C7_Witness ==
  \E a, b \in alerts :
    /\ a.direction = "above" /\ regPrice[a.id] = Some(a.target)
    /\ b.direction = "below"

\* C8: the id of a deleted alert is in no result of db_fetch_all_alerts or of
\* db_list_alerts that is taken afterwards.
C8_DeletedNeverListed ==
  \A id \in deleted :
    /\ \A i \in DOMAIN db_fetch_all_alerts(alerts) :
         db_fetch_all_alerts(alerts)[i].id # id
    /\ \A u \in Users : \A i \in DOMAIN db_list_alerts(alerts, u) :
         db_list_alerts(alerts, u)[i].id # id

C8_Witness ==
  /\ lastOp = Op("myalerts", 0, 0, "Your Alerts")
  /\ \E id \in deleted : \E a \in alerts : a.id > id

\* C9: an /alert that answers "Price must be a number." or "Unknown coin
\* symbol." leaves the table and the id sequence as they were, and every
\* alert in the store was stored with a rate the provider answered.
C9_FailedRegistration ==
  /\ [](\A a \in alerts : regPrice[a.id].some)
  /\ [][(lastOp'.op = "alert" /\
          lastOp'.res \in {"Price must be a number.", "Unknown coin symbol."})
        => (alerts' = alerts /\ nextId' = nextId)]_vars

C9_Witness ==
  /\ lastOp = Op("alert", 0, 0, "Unknown coin symbol.")
  /\ alerts # {}

\* C10: a step that removes an alert from the store is a /delalert by the
\* alert's owner for its id, or the job's db_delete_by_id for the row it has
\* just notified, which had a quote and was a hit in the running cycle.
C10_OnlyTwoWaysOut ==
  [][\A a \in alerts : a \notin alerts' =>
       \/ /\ lastOp' = Op("delalert", a.user_id, a.id, "Deleted.")
          /\ pc' = pc
       \/ /\ lastOp' = Op("job_delete", 0, a.id, "deleted")
          /\ pc = "sending"
          /\ rows[idx].id = a.id
          /\ SpecHit(rows[idx])]_vars

C10_Witness ==
  /\ lastOp.op = "job_delete"
  /\ lastOp.res = "deleted"
  /\ lastOp.aid \in deleted
  /\ alerts # {}

\* the command handlers: every step of one of them leaves its name in lastOp
Commands == {"alert", "myalerts", "delalert"}

\* C11: no command handler runs between the job's send_message call for a
\* triggered alert and its db_delete_by_id for that alert: no step of
\* /alert, /myalerts or /delalert is taken while the job is suspended in the
\* send for a row that is still in the store.
C11_NoCommandBetweenNotifyAndDelete ==
  [][lastOp'.op \in Commands =>
       ~(pc = "sending" /\ rows[idx].id \in IdsOf(alerts))]_vars

\* C18: the job never calls send_message for an alert that is not in the
\* store at that moment; an alert its owner deleted after the snapshot is not
\* notified from the snapshot later in the same cycle.
C18_NoSendForAbsentAlert ==
  [][(pc = "evaluate" /\ pc' = "sending") => rows[idx'].id \in IdsOf(alerts)]_vars

\* C20: whenever the connection handle is set, the CREATE TABLE of db_connect
\* has been committed.
C20_ConnImpliesSchema == conn # "None" => schema

C13_SnapshotFailureAbortsCycle ==
  /\ [][(pc = "idle" /\ lastOp' = Op("job", 0, 0, "alert_check_job error")) =>
          /\ alerts' = alerts /\ nextId' = nextId
          /\ lcwCalls' = NoCalls
          /\ notified' = notified /\ deleted' = deleted
          /\ sent' = {} /\ delCalled' = {}
          /\ rows' = <<>> /\ pc' = "idle"]_vars
  /\ [](lastOp = Op("job", 0, 0, "alert_check_job error") => ENABLED alert_check_job)

C13_Witness ==
  /\ lastOp = Op("job", 0, 0, "alert_check_job error")
  /\ conn = "open" /\ schema
  /\ alerts # {}
  /\ notified # {}

C15_FetchBeforeEvaluate ==
  /\ [](\A i \in DOMAIN rows :
          rows[i].id \in sent => shown[rows[i].id] = prices[rows[i].symbol])
  /\ [](\A i, j \in DOMAIN rows :
          (rows[i].symbol = rows[j].symbol /\ {rows[i].id, rows[j].id} \subseteq sent)
            => shown[rows[i].id] = shown[rows[j].id])
  /\ [][(pc # "idle" /\ pc' # "idle") =>
          (prices' = prices /\ lcwCalls' = lcwCalls /\ rows' = rows)]_vars

C15_Witness ==
  /\ pc = "sending"
  /\ \E i, j \in DOMAIN rows :
       /\ i # j
       /\ rows[i].symbol = rows[j].symbol
       /\ rows[i].direction # rows[j].direction
       /\ {rows[i].id, rows[j].id} \subseteq sent
       /\ shown[rows[i].id] = shown[rows[j].id]
       /\ shown[rows[i].id].some

\* C16: over all interleavings of the command handlers and the job,
\* psycopg2.connect returns a handle at most once and the CREATE TABLE
\* statement is executed at most once; once the handle is set, no db_connect
\* call replaces it or runs the statement again.
C16_ConnectOnce ==
  /\ [](handles <= 1 /\ creates <= 1)
  /\ [][conn # "None" =>
          (conn' = conn /\ handles' = handles /\ creates' = creates)]_vars

C16_Witness ==
  /\ handles = 1 /\ creates = 1
  /\ pc = "sending"
  /\ lastOp = Op("myalerts", 0, 0, "Your Alerts")

\* C19: a send_message or db_delete_by_id that raises for one hit does not
\* end the loop: at the end of a cycle in which one of them raised, for every
\* row of the snapshot that is a hit send_message was called and
\* db_delete_by_id was called, each once per row and cycle.
C19_FailureDoesNotStopCycle ==
  /\ []((CycleEnd /\ (sendRaised \cup delRaised) # {}) =>
          \A i \in DOMAIN rows :
            SpecHit(rows[i]) => (rows[i].id \in sent /\ rows[i].id \in delCalled))
  /\ [][(pc = "evaluate" /\ pc' = "sending") => rows[idx'].id \notin sent]_vars
  /\ [][(pc = "sending" /\ pc' = "evaluate") =>
          (rows[idx].id \notin delCalled /\ delCalled' = delCalled \cup {rows[idx].id})]_vars

C19_Witness ==
  /\ CycleEnd
  /\ Len(rows) = 2
  /\ rows[1].id \in sendRaised
  /\ rows[1].id \in delRaised
  /\ SpecHit(rows[2])
  /\ rows[2].id \in sent
  /\ rows[2].id \in delCalled

\* a run of alert_check_job has taken its snapshot and fetched the prices,
\* alert id is in the snapshot and the price of its symbol makes it a hit
HitFetched(id) ==
  /\ pc = "evaluate" /\ idx = 1
  /\ \E i \in DOMAIN rows : rows[i].id = id /\ SpecHit(rows[i])

\* C17: with the store reachable, if again and again (for as long as alert
\* id is stored) the job queue starts a run in which the provider quotes the
\* alert's symbol at a price that makes it a hit, then a stored alert id is
\* eventually gone from the store, notified by the job unless its owner
\* deleted it; and every run that gets past the snapshot works on all rows
\* of the table, whatever earlier runs skipped.
C17_HitEventuallyNotifiedAndRemoved ==
  /\ \A id \in Ids :
       ([]<>(id \notin IdsOf(alerts) \/ HitFetched(id))) =>
         ((id \in IdsOf(alerts)) ~>
            (/\ id \notin IdsOf(alerts)
             /\ \/ id \in notified
                \/ lastOp.op = "delalert" /\ lastOp.aid = id /\ lastOp.res = "Deleted."))
  /\ [][(pc = "idle" /\ pc' = "evaluate") =>
          \A a \in alerts : \E i \in DOMAIN rows' : rows'[i] = a]_vars

C17_Witness ==
  \E id \in Ids :
    /\ lastOp = Op("job_delete", 0, id, "deleted")
    /\ id \in notified
    /\ id \in sendRaised
    /\ id \notin IdsOf(alerts)
    /\ alerts # {}
====
